---- MODULE Spec2Model ----
(***************************************************************************)
(* Model of gitlab_mr.py: the GitLabAPI client (token, project id, the     *)
(* memoized current user, the four request operations and their error      *)
(* mapping) and the two tools list_mr and download_diff.                   *)
(*                                                                         *)
(* Encoding of Python values                                               *)
(*   Optional[x]   None is <<>>, a present value x is <<x>>                *)
(*   dict          a record; an absent key is a field not in its DOMAIN    *)
(*   str           a sequence of text fragments (one-character strings     *)
(*                 where the characters matter: mr_iid, str(int)); an      *)
(*                 f-string is the concatenation of its pieces             *)
(*   exception     [raised |-> TRUE, msg |-> str(e)]                       *)
(***************************************************************************)
EXTENDS Integers, Sequences, FiniteSets, TLC

VARIABLES
    environ,      \* os.environ: PROJECT_ID, GITLAB_TOKEN, DOWNLOAD_PATH (each Optional[str])
    gitlab_api,   \* the module-level client: None or the GitLabAPI instance
    call,         \* the tool call last dispatched (tool and arguments)
    result,       \* what that call returned to its caller
    log,          \* what that call did, in program order (getenv, client calls, GET, makedirs, open, write)
    threads       \* the threads inside get_current_user (pc, fetched value, returned value)

vars == <<environ, gitlab_api, call, result, log, threads>>

(***************************************************************************)
(* Bounds of the model.                                                    *)
(***************************************************************************)
MaxUsers == 2        \* longest user list a search response carries
MaxMRs == 2          \* longest merge-request list a listing response carries
NumThreads == 2      \* threads racing in get_current_user

(***************************************************************************)
(* Python values.                                                          *)
(***************************************************************************)
None == <<>>
Some(x) == <<x>>

\* bool(x) of an Optional[str]: None and "" are falsy
Truthy(o) == o # None /\ o[1] # ""

\* dict.get(key, default)
Get(d, k, default) == IF k \in DOMAIN d THEN d[k] ELSE default

Min(a, b) == IF a < b THEN a ELSE b

DigitChar(d) ==
    CASE d = 0 -> "0" [] d = 1 -> "1" [] d = 2 -> "2" [] d = 3 -> "3" [] d = 4 -> "4"
      [] d = 5 -> "5" [] d = 6 -> "6" [] d = 7 -> "7" [] d = 8 -> "8" [] d = 9 -> "9"

\* str(n) of a non-negative int: its decimal digits
RECURSIVE IntToStr(_)
IntToStr(n) == IF n < 10 THEN <<DigitChar(n)>> ELSE IntToStr(n \div 10) \o <<DigitChar(n % 10)>>

\* sep.join(items), items a list of one-fragment strings
RECURSIVE Join(_, _)
Join(sep, items) ==
    IF items = <<>> THEN <<>>
    ELSE IF Len(items) = 1 THEN <<items[1]>>
    ELSE <<items[1], sep>> \o Join(sep, Tail(items))

\* needle in haystack, for strings as fragment sequences
Contains(haystack, needle) ==
    \E i \in 0..(Len(haystack) - Len(needle)) :
        \A j \in 1..Len(needle) : haystack[i + j] = needle[j]

\* outcome of a Python call: a return value or a raised exception
Return(v) == [raised |-> FALSE, value |-> v, msg |-> <<>>]
Raise(m) == [raised |-> TRUE, value |-> None, msg |-> m]

\* one entry of the log: an effect (getenv, GET and the response status, makedirs, open,
\* write), a call of a client method, or its normal return with the value returned
\* (for get_merge_requests, the number of records returned)
Event(ev, arg) == [ev |-> ev, arg |-> arg]

(***************************************************************************)
(* The remote API: what one HTTP exchange can produce.                     *)
(*   kind "ok"    2xx; json is <<document>> when the body decodes as JSON  *)
(*                and <<>> when it does not; text is the body as text      *)
(*   kind "http"  urllib.error.HTTPError with code, body text and fp       *)
(*   kind "url"   urllib.error.URLError with reason                        *)
(***************************************************************************)
OkJson(doc) == [kind |-> "ok", code |-> 200, json |-> <<doc>>, text |-> <<>>, fp |-> TRUE, reason |-> <<>>]
BadJson == [kind |-> "ok", code |-> 200, json |-> <<>>, text |-> <<"<html>">>, fp |-> TRUE, reason |-> <<>>]
OkText(t) == [kind |-> "ok", code |-> 200, json |-> <<>>, text |-> t, fp |-> TRUE, reason |-> <<>>]
HttpError(code, t, fp) == [kind |-> "http", code |-> code, json |-> <<>>, text |-> t, fp |-> fp, reason |-> <<>>]
UrlError(r) == [kind |-> "url", code |-> 0, json |-> <<>>, text |-> <<>>, fp |-> FALSE, reason |-> r]

StatusBody(code) ==
    CASE code = 401 -> <<"Unauthorized">>
      [] code = 404 -> <<"Not Found">>
      [] OTHER -> <<"Internal Server Error">>

ErrorStatuses == {401, 404, 500}

Failures ==
    {HttpError(c, StatusBody(c), fp) : c \in ErrorStatuses, fp \in BOOLEAN}
        \cup {UrlError(<<"timed out">>)}

\* all sequences over S of length at most n
RECURSIVE SeqsUpTo(_, _)
SeqsUpTo(S, n) ==
    IF n = 0 THEN {<<>>}
    ELSE LET shorter == SeqsUpTo(S, n - 1)
         IN shorter \cup {Append(q, x) : q \in {r \in shorter : Len(r) = n - 1}, x \in S}

UserIds == {0, 7, 42}
Emails == {"dev@example.com", "Dev@example.com"}

\* user records of the remote API; the email key may be missing from a record
Users ==
    {[id |-> i, email |-> "dev@example.com"] : i \in UserIds}
        \cup {[id |-> 7, email |-> "Dev@example.com"], [id |-> 7]}

\* GET /user: the authenticated user's record, as the remote API holds it at that moment
IdentityResponses ==
    {OkJson(Some(u)) : u \in {v \in Users : "email" \in DOMAIN v}}
        \cup {BadJson} \cup Failures

\* GET /users?search=...: a list of user records
SearchResponses ==
    {OkJson(us) : us \in SeqsUpTo(Users, MaxUsers)} \cup {BadJson} \cup Failures

(***************************************************************************)
(* class GitLabAPI                                                         *)
(***************************************************************************)
base_url == <<"https://gitlab.com/api/v4">>

\* what the log keeps of one HTTP exchange: the request and the status that answered it
StatusOf(resp) == IF resp.kind = "url" THEN <<"URLError">> ELSE IntToStr(resp.code)
Exchange(endpoint, resp) == <<Event("GET", endpoint), Event("response", StatusOf(resp))>>

\* GitLabAPI._get_token
_get_token(env) ==
    LET token == env.GITLAB_TOKEN
    IN IF ~Truthy(token)
       THEN Raise(<<"GITLAB_TOKEN environment variable not set">>)
       ELSE Return(token[1])

\* GitLabAPI.__init__
GitLabAPI(env, project_id) ==
    LET token == _get_token(env)
    IN IF token.raised THEN token
       ELSE Return([base_url |-> base_url, token |-> token.value,
                    project_id |-> project_id, current_user |-> None])

\* GitLabAPI._make_request: the decoded JSON document, or the ValueError of the error mapping
_make_request(endpoint, resp) ==
    CASE resp.kind = "ok" ->
            IF resp.json = <<>> THEN Raise(<<"Expecting value: line 1 column 1 (char 0)">>)
            ELSE Return(resp.json[1])
      [] resp.kind = "http" ->
            IF resp.code = 401 THEN Raise(<<"Authentication failed. Check your GITLAB_TOKEN">>)
            ELSE IF resp.code = 404 THEN Raise(<<"Resource not found: ">> \o endpoint)
            ELSE LET error_body == IF resp.fp THEN resp.text ELSE <<"Unknown error">>
                 IN Raise(<<"API request failed with status ">> \o IntToStr(resp.code)
                              \o <<": ">> \o error_body)
      [] resp.kind = "url" -> Raise(<<"Network error: ">> \o resp.reason)

\* get_current_user without the "is None" test: every call fetches and stores
get_current_user_refetch(self, resp) ==
    LET r == _make_request(<<"/user">>, resp)
        sent == Exchange(<<"/user">>, resp)
    IN IF r.raised THEN [self |-> self, out |-> r, log |-> sent]
       ELSE [self |-> [self EXCEPT !.current_user = r.value], out |-> Return(r.value), log |-> sent]

\* GitLabAPI.get_current_user: [self, out, log], self being the client after the call
get_current_user(self, resp) ==
    IF self.current_user = None
    THEN LET r == _make_request(<<"/user">>, resp)
             sent == Exchange(<<"/user">>, resp)
         IN IF r.raised THEN [self |-> self, out |-> r, log |-> sent]
            ELSE LET stored == [self EXCEPT !.current_user = r.value]
                 IN [self |-> stored, out |-> Return(stored.current_user), log |-> sent]
    ELSE [self |-> self, out |-> Return(self.current_user), log |-> <<>>]

\* the scan of get_user_by_email: the first user whose email equals the one asked for
RECURSIVE FirstWithEmail(_, _)
FirstWithEmail(users, email) ==
    IF users = <<>> THEN None
    ELSE IF "email" \in DOMAIN users[1] /\ users[1].email = email
         THEN Some(users[1])
         ELSE FirstWithEmail(Tail(users), email)

\* get_user_by_email without its try/except: the error of the request propagates
get_user_by_email_raising(self, email, resp) ==
    LET endpoint == <<"/users?search=", email>>
        users == _make_request(endpoint, resp)
        sent == Exchange(endpoint, resp)
    IN IF users.raised THEN [out |-> users, log |-> sent]
       ELSE [out |-> Return(FirstWithEmail(users.value, email)), log |-> sent]

\* GitLabAPI.get_user_by_email: [out, log]; every exception becomes None
get_user_by_email(self, email, resp) ==
    LET endpoint == <<"/users?search=", email>>
        users == _make_request(endpoint, resp)
        sent == Exchange(endpoint, resp)
    IN IF users.raised THEN [out |-> Return(None), log |-> sent]
       ELSE [out |-> Return(FirstWithEmail(users.value, email)), log |-> sent]

\* the query string get_merge_requests builds
MergeRequestsEndpoint(self, state, scope, author_id, assignee_id) ==
    <<"/projects/", self.project_id, "/merge_requests?state=", state, "&scope=", scope>>
        \o (IF author_id # None /\ author_id[1] # 0
            THEN <<"&author_id=">> \o IntToStr(author_id[1]) ELSE <<>>)
        \o (IF assignee_id # None /\ assignee_id[1] # 0
            THEN <<"&assignee_id=">> \o IntToStr(assignee_id[1]) ELSE <<>>)

\* GitLabAPI.get_merge_requests: [out, log]
get_merge_requests(self, state, scope, author_id, assignee_id, resp) ==
    LET endpoint == MergeRequestsEndpoint(self, state, scope, author_id, assignee_id)
    IN [out |-> _make_request(endpoint, resp), log |-> Exchange(endpoint, resp)]

\* GitLabAPI.get_raw_diffs: [out, log]; mr_iid is a string of characters
get_raw_diffs(self, mr_iid, resp) ==
    LET endpoint == <<"/projects/", self.project_id, "/merge_requests/">> \o mr_iid \o <<"/raw_diffs">>
        sent == Exchange(endpoint, resp)
        out ==
            CASE resp.kind = "ok" -> Return(resp.text)
              [] resp.kind = "http" ->
                    LET error_body == IF resp.fp THEN resp.text ELSE <<"Unknown error">>
                    IN Raise(<<"Failed to get diffs: ">> \o IntToStr(resp.code)
                                 \o <<" - ">> \o error_body)
              [] resp.kind = "url" -> Raise(<<"Network error: ">> \o resp.reason)
    IN [out |-> out, log |-> sent]

(***************************************************************************)
(* Merge-request records of the remote API.  Every record carries the keys *)
(* the API always sends; description may be text, null or missing, and the *)
(* optional keys (assignees, labels, upvotes, downvotes) may be missing.   *)
(***************************************************************************)
Chars_created_at == <<"2","0","2","4","-","0","1","-","1","5","T","1","0",":","0","0",":","0","0","Z">>

MRBase(iid, state) ==
    [iid |-> iid, title |-> "Fix login", state |-> state,
     author |-> [name |-> "Ann", email |-> "dev@example.com"],
     source_branch |-> "feature", target_branch |-> "main",
     created_at |-> Chars_created_at, updated_at |-> Chars_created_at,
     web_url |-> "https://gitlab.com/g/p/-/merge_requests/1"]

\* r extended with the key k holding v
With(r, k, v) == [x \in DOMAIN r \cup {k} |-> IF x = k THEN v ELSE r[x]]

MRWithText ==
    With(With(With(With(With(MRBase(1, "opened"),
        "description", Some(<<"F", "i", "x">>)),
        "assignees", <<[name |-> "Bob"]>>),
        "labels", <<"bug">>),
        "upvotes", 1),
        "downvotes", 0)

MRWithNull ==
    With(With(With(With(With(MRBase(2, "closed"),
        "description", None),
        "assignees", <<>>),
        "labels", <<>>),
        "upvotes", 0),
        "downvotes", 2)

MRWithout == MRBase(3, "merged")

MergeRequests == {MRWithText, MRWithNull, MRWithout}

\* GET /projects/<id>/merge_requests: a list of merge-request records
ListingResponses ==
    {OkJson(ms) : ms \in SeqsUpTo(MergeRequests, MaxMRs)} \cup {BadJson} \cup Failures

(***************************************************************************)
(* _display_merge_requests                                                 *)
(***************************************************************************)
DescLimit == 100
DateLen == 10

\* s[:n]
Slice(s, n) == SubSeq(s, 1, Min(n, Len(s)))

NoDescription == <<"N","o"," ","d","e","s","c","r","i","p","t","i","o","n">>

Names(people) == [i \in 1..Len(people) |-> people[i].name]

\* the emoji are written as words: (green) opened, (red) closed, (yellow) any other state
StatusEmoji(state) ==
    IF state = "opened" THEN "(green)" ELSE IF state = "closed" THEN "(red)" ELSE "(yellow)"

\* the lines of the "if show_details" block; None[:100] raises TypeError
DetailLines(mr) ==
    LET description == Get(mr, "description", Some(NoDescription))
    IN IF description = None
       THEN Raise(<<"'NoneType' object is not subscriptable">>)
       ELSE Return(
            << <<"   Description: ">> \o Slice(description[1], DescLimit) \o <<"...">>,
               <<"   Upvotes: ">> \o IntToStr(Get(mr, "upvotes", 0)),
               <<"   Downvotes: ">> \o IntToStr(Get(mr, "downvotes", 0)) >>
            \o (IF Get(mr, "assignees", <<>>) # <<>>
                THEN << <<"   Assignees: ">> \o Join(", ", Names(mr.assignees)) >> ELSE <<>>)
            \o (IF Get(mr, "labels", <<>>) # <<>>
                THEN << <<"   Labels: ">> \o Join(", ", mr.labels) >> ELSE <<>>))

\* the lines of one pass of the "for i, mr in enumerate" loop
EntryLines(i, mr, show_details) ==
    LET head ==
            << IntToStr(i) \o <<". ", StatusEmoji(mr.state), " MR !">> \o IntToStr(mr.iid)
                   \o <<" - ", mr.title>>,
               <<"   Author: ", mr.author.name>>,
               <<"   Source: ", mr.source_branch, " -> ", mr.target_branch>>,
               <<"   Created: ">> \o Slice(mr.created_at, DateLen) >>
        details == IF show_details THEN DetailLines(mr) ELSE Return(<<>>)
        foot == << <<"   URL: ", mr.web_url>>, <<>> >>
    IN IF details.raised THEN details
       ELSE Return(head \o details.value \o foot)

\* the loop from entry i on: all the lines, or the first exception
RECURSIVE EntriesFrom(_, _, _)
EntriesFrom(merge_requests, i, show_details) ==
    IF i > Len(merge_requests) THEN Return(<<>>)
    ELSE LET this == EntryLines(i, merge_requests[i], show_details)
             rest == EntriesFrom(merge_requests, i + 1, show_details)
         IN IF this.raised THEN this
            ELSE IF rest.raised THEN rest
            ELSE Return(this.value \o rest.value)

\* "\n".join(output)
RECURSIVE JoinLines(_)
JoinLines(lines) ==
    IF lines = <<>> THEN <<>>
    ELSE IF Len(lines) = 1 THEN lines[1]
    ELSE lines[1] \o <<"\n">> \o JoinLines(Tail(lines))

_display_merge_requests(merge_requests, show_details_arg) ==
    IF merge_requests = <<>> THEN Return(<<"No merge requests found.">>)
    ELSE LET show_details == IF Len(merge_requests) = 1 THEN TRUE ELSE show_details_arg
             header == << <<"\nMerge Requests (">> \o IntToStr(Len(merge_requests)) \o <<" found):">>,
                          <<"============================================================">> >>
             entries == EntriesFrom(merge_requests, 1, show_details)
         IN IF entries.raised THEN entries
            ELSE Return(JoinLines(header \o entries.value))

(***************************************************************************)
(* The tool layer.                                                         *)
(***************************************************************************)
\* get_project_id: [out, log]
get_project_id(env) ==
    LET project_id == env.PROJECT_ID
        read == <<Event("getenv", <<"PROJECT_ID">>)>>
    IN IF ~Truthy(project_id)
       THEN [out |-> Raise(<<"PROJECT_ID environment variable not set">>), log |-> read]
       ELSE [out |-> Return(project_id[1]), log |-> read]

\* "if gitlab_api is None: ..." at the head of both tools: [api, out, log]
EnsureClient(api, env) ==
    IF api # None THEN [api |-> api, out |-> Return(None), log |-> <<>>]
    ELSE LET project_id == get_project_id(env)
         IN IF project_id.out.raised
            THEN [api |-> None, out |-> project_id.out, log |-> project_id.log]
            ELSE LET built == GitLabAPI(env, project_id.out.value)
                     read == project_id.log \o <<Event("getenv", <<"GITLAB_TOKEN">>)>>
                 IN IF built.raised
                    THEN [api |-> None, out |-> built, log |-> read]
                    ELSE [api |-> Some(built.value), out |-> Return(None), log |-> read]

\* the error-only result of a tool
ErrorResult(msg) == [error |-> msg]

valid_states == <<"opened", "closed", "merged", "locked", "all">>

Range(f) == {f[i] : i \in DOMAIN f}

InvalidStateMessage(state) ==
    <<"Invalid state '", state, "'. Must be one of: ">> \o Join(", ", valid_states)

\* the "Determine user filtering" block of list_mr, the identity request answered by
\* resp: [self, returned, result, raised, msg, user_id, log]
NoUserFilter(self) ==
    [self |-> self, returned |-> FALSE, result |-> ErrorResult(<<>>),
     raised |-> FALSE, msg |-> <<>>, user_id |-> None, log |-> <<>>]

ResolveByEmail(self, git_email, resp) ==
    LET r == get_user_by_email(self, git_email[1], resp)
        user == r.out.value
        done == <<Event("call", <<"get_user_by_email">>)>> \o r.log
               \o <<Event("return get_user_by_email", user)>>
    IN IF r.out.raised
       THEN [NoUserFilter(self) EXCEPT !.raised = TRUE, !.msg = r.out.msg,
                 !.log = <<Event("call", <<"get_user_by_email">>)>> \o r.log]
       ELSE IF user = None
       THEN [NoUserFilter(self) EXCEPT !.returned = TRUE, !.log = done,
                 !.result = ErrorResult(<<"User with email '", git_email[1], "' not found">>)]
       ELSE [NoUserFilter(self) EXCEPT !.user_id = Some(user[1].id), !.log = done]

ResolveCurrent(self, resp) ==
    LET r == get_current_user(self, resp)
        done == <<Event("call", <<"get_current_user">>)>> \o r.log
    IN IF r.out.raised
       THEN [NoUserFilter(r.self) EXCEPT !.raised = TRUE, !.msg = r.out.msg, !.log = done]
       ELSE [NoUserFilter(r.self) EXCEPT !.user_id = Some(r.out.value[1].id),
                 !.log = done \o <<Event("return get_current_user", r.out.value)>>]

\* the ways the block can go, one for each answer of the remote API
ResolveUser(self, filter_by, git_email) ==
    IF filter_by \notin {"assigned_to_me", "created_by_me"} THEN {NoUserFilter(self)}
    ELSE IF Truthy(git_email)
    THEN {ResolveByEmail(self, git_email, resp) : resp \in SearchResponses}
    ELSE {ResolveCurrent(self, resp) : resp \in IdentityResponses}

\* one entry of result["merge_requests"]
FormattedMR(mr) ==
    [iid |-> mr.iid, title |-> mr.title, state |-> mr.state,
     author |-> mr.author.name, author_email |-> Get(mr.author, "email", ""),
     source_branch |-> mr.source_branch, target_branch |-> mr.target_branch,
     created_at |-> mr.created_at, updated_at |-> mr.updated_at, web_url |-> mr.web_url,
     description |-> Get(mr, "description", Some(<<>>)),
     assignees |-> Names(Get(mr, "assignees", <<>>)),
     labels |-> Get(mr, "labels", <<>>),
     upvotes |-> Get(mr, "upvotes", 0), downvotes |-> Get(mr, "downvotes", 0)]

\* list_mr from "Fetch merge requests" on, the listing request answered by resp
FetchAndFormat(who, log1, state, filter_by, git_email, resp) ==
    LET author_id == IF filter_by = "created_by_me" THEN who.user_id ELSE None
        assignee_id == IF filter_by = "assigned_to_me" THEN who.user_id ELSE None
        fetched == get_merge_requests(who.self, state, "all", author_id, assignee_id, resp)
        log2 == log1 \o <<Event("call", <<"get_merge_requests">>)>> \o fetched.log
    IN IF fetched.out.raised
       THEN [api |-> Some(who.self), result |-> ErrorResult(fetched.out.msg), log |-> log2]
       ELSE
       LET merge_requests == fetched.out.value
           log3 == log2 \o <<Event("return get_merge_requests", IntToStr(Len(merge_requests)))>>
           display_output == _display_merge_requests(merge_requests, FALSE)
       IN IF display_output.raised
          THEN [api |-> Some(who.self), result |-> ErrorResult(display_output.msg), log |-> log3]
          ELSE [api |-> Some(who.self), log |-> log3,
                result |->
                  [display |-> display_output.value,
                   merge_requests |->
                      [i \in 1..Len(merge_requests) |-> FormattedMR(merge_requests[i])],
                   total_count |-> Len(merge_requests),
                   filter |-> [state |-> state, filter_by |-> filter_by,
                               git_email |-> git_email]]]

\* list_mr once the user filter is resolved as who
AfterResolve(who, log1, state, filter_by, git_email) ==
    IF who.returned THEN {[api |-> Some(who.self), result |-> who.result, log |-> log1]}
    ELSE IF who.raised
    THEN {[api |-> Some(who.self), result |-> ErrorResult(who.msg), log |-> log1]}
    ELSE {FetchAndFormat(who, log1, state, filter_by, git_email, resp) : resp \in ListingResponses}

\* list_mr: the runs [api, result, log] the call can take, one for each way the
\* remote API can answer its requests; api is the module-level client after the call
list_mr(api0, env, state, filter_by, git_email) ==
    LET client == EnsureClient(api0, env)
    IN IF client.out.raised
       THEN {[api |-> client.api, result |-> ErrorResult(client.out.msg), log |-> client.log]}
       ELSE IF state \notin Range(valid_states)
       THEN {[api |-> client.api, result |-> ErrorResult(InvalidStateMessage(state)),
              log |-> client.log]}
       ELSE UNION {AfterResolve(who, client.log \o who.log, state, filter_by, git_email) :
                      who \in ResolveUser(client.api[1], filter_by, git_email)}

(***************************************************************************)
(* download_diff                                                           *)
(***************************************************************************)
\* characters an mr_iid is made of, by what str.isdigit says of each:
\* the ASCII digits, U+0663 (ARABIC-INDIC DIGIT THREE, a decimal digit),
\* U+00B2 (SUPERSCRIPT TWO, Numeric_Type=Digit) count as digits;
\* U+00BD (VULGAR FRACTION ONE HALF, numeric only), letters and signs do not
AsciiDigits == {"0", "1", "2", "3", "4", "5", "6", "7", "8", "9"}
OtherDecimalDigits == {"U+0663"}
OtherDigits == {"U+00B2"}

\* str.isdigit
isdigit(str) ==
    /\ str # <<>>
    /\ \A i \in 1..Len(str) : str[i] \in AsciiDigits \cup OtherDecimalDigits \cup OtherDigits

\* raw diffs of the remote API, and the local clock
Diffs == {<<>>, <<"+", "a">>}
DiffResponses == {OkText(d) : d \in Diffs} \cup Failures

Timestamps == {"2024-01-15_143022"}

\* outcomes of the file operations: all succeed, or the named one raises OSError
IoOutcomes == {"ok", "makedirs", "open", "write"}

\* the "if save_to_file" block falling back to the current directory when
\* DOWNLOAD_PATH is not set
SaveDiffDefaultDir(env, mr_iid, raw_diff, now, io) ==
    LET output_dir == IF Truthy(env.DOWNLOAD_PATH) THEN env.DOWNLOAD_PATH[1] ELSE "."
        filepath == <<output_dir, "/", now, ".merge-diff-">> \o mr_iid \o <<".txt">>
    IN [raised |-> FALSE, msg |-> <<>>, file_path |-> filepath,
        log |-> <<Event("getenv", <<"DOWNLOAD_PATH">>), Event("makedirs", <<output_dir>>),
                  Event("open", filepath), Event("write", raw_diff)>>]

\* the "if save_to_file" block: [raised, msg, file_path, log]
SaveDiff(env, mr_iid, raw_diff, now, io) ==
    LET output_dir == env.DOWNLOAD_PATH
        read == <<Event("getenv", <<"DOWNLOAD_PATH">>)>>
        filename == <<now, ".merge-diff-">> \o mr_iid \o <<".txt">>
        filepath == <<output_dir[1], "/">> \o filename
        made == read \o <<Event("makedirs", <<output_dir[1]>>)>>
        opened == made \o <<Event("open", filepath)>>
        written == opened \o <<Event("write", raw_diff)>>
        fail(m, l) == [raised |-> TRUE, msg |-> m, file_path |-> <<>>, log |-> l]
    IN IF ~Truthy(output_dir)
       THEN fail(<<"DOWNLOAD_PATH environment variable not set">>, read)
       ELSE IF io = "makedirs"
       THEN fail(<<"[Errno 13] Permission denied: ", output_dir[1]>>, read)
       ELSE IF io = "open"
       THEN fail(<<"[Errno 13] Permission denied: ">> \o filepath, made)
       ELSE IF io = "write"
       THEN fail(<<"[Errno 28] No space left on device">>, opened)
       ELSE [raised |-> FALSE, msg |-> <<>>, file_path |-> filepath, log |-> written]

\* the result keeping the diff fields next to the error when saving fails
BuildResultLeaky(api, env, mr_iid, save_to_file, raw_diff, log1, now, io) ==
    LET unsaved == [mr_iid |-> mr_iid, raw_diff |-> raw_diff, diff_size |-> Len(raw_diff),
                    saved_to_file |-> FALSE, file_path |-> None]
        saved == SaveDiff(env, mr_iid, raw_diff, now, io)
    IN IF ~save_to_file THEN [api |-> api, result |-> unsaved, log |-> log1]
       ELSE IF saved.raised
       THEN [api |-> api, result |-> With(unsaved, "error", saved.msg), log |-> log1 \o saved.log]
       ELSE [api |-> api, log |-> log1 \o saved.log,
             result |-> [unsaved EXCEPT !.saved_to_file = TRUE,
                                        !.file_path = Some(saved.file_path)]]

\* download_diff from "result = {...}" on, raw_diff being what get_raw_diffs returned
BuildResult(api, env, mr_iid, save_to_file, raw_diff, log1, now, io) ==
    LET unsaved == [mr_iid |-> mr_iid, raw_diff |-> raw_diff, diff_size |-> Len(raw_diff),
                    saved_to_file |-> FALSE, file_path |-> None]
    IN IF ~save_to_file THEN [api |-> api, result |-> unsaved, log |-> log1]
       ELSE LET saved == SaveDiff(env, mr_iid, raw_diff, now, io)
            IN IF saved.raised
               THEN [api |-> api, result |-> ErrorResult(saved.msg), log |-> log1 \o saved.log]
               ELSE [api |-> api, log |-> log1 \o saved.log,
                     result |-> [unsaved EXCEPT !.saved_to_file = TRUE,
                                                !.file_path = Some(saved.file_path)]]

\* download_diff from "Download raw diff" on, the request answered by resp
FetchAndSave(api, env, mr_iid, save_to_file, log0, resp) ==
    LET fetched == get_raw_diffs(api[1], mr_iid, resp)
        log1 == log0 \o <<Event("call", <<"get_raw_diffs">>)>> \o fetched.log
    IN IF fetched.out.raised
       THEN {[api |-> api, result |-> ErrorResult(fetched.out.msg), log |-> log1]}
       ELSE {BuildResult(api, env, mr_iid, save_to_file, fetched.out.value, log1, now, io) :
                now \in Timestamps, io \in IoOutcomes}

\* download_diff: the runs [api, result, log] the call can take
download_diff(api0, env, mr_iid, save_to_file) ==
    LET client == EnsureClient(api0, env)
    IN IF client.out.raised
       THEN {[api |-> client.api, result |-> ErrorResult(client.out.msg), log |-> client.log]}
       ELSE IF ~isdigit(mr_iid)
       THEN {[api |-> client.api, result |-> ErrorResult(<<"MR IID must be a number">>),
              log |-> client.log]}
       ELSE UNION {FetchAndSave(client.api, env, mr_iid, save_to_file, client.log, resp) :
                      resp \in DiffResponses}

(***************************************************************************)
(* Inputs of the tools and answers of the remote API.                      *)
(***************************************************************************)
EnvValues(v) == {None, Some(""), Some(v)}

StateInputs == {"opened", "closed", "merged", "locked", "all", "draft", "Opened", ""}
FilterInputs == {"all", "assigned_to_me", "created_by_me", "mine"}
EmailInputs == {None, Some("")} \cup {Some(e) : e \in Emails}

MrIidInputs ==
    {<<>>, <<"1", "2", "3">>, <<"a", "b", "c">>, <<"-", "1">>, <<"1", "a">>,
     <<"U+00B2">>, <<"U+0663">>, <<"U+00BD">>}

(***************************************************************************)
(* The server process: one tool call at a time, each run to its return.    *)
(***************************************************************************)
NoThreads == [t \in 1..NumThreads |-> [pc |-> "idle", fetched |-> None, ret |-> None, gets |-> 0]]


Init ==
    /\ environ \in [PROJECT_ID : EnvValues("42"), GITLAB_TOKEN : EnvValues("glpat"),
                    DOWNLOAD_PATH : EnvValues("/tmp/diffs")]
    /\ gitlab_api = None
    /\ call = None
    /\ result = None
    /\ log = <<>>
    /\ threads = NoThreads

\* the dispatcher runs list_mr(state, filter_by, git_email) to its return
ListMr ==
    /\ call = None
    /\ \E state \in StateInputs, filter_by \in FilterInputs, git_email \in EmailInputs :
         \E r \in list_mr(gitlab_api, environ, state, filter_by, git_email) :
               /\ call' = Some([tool |-> "list_mr", state |-> state, filter_by |-> filter_by,
                                git_email |-> git_email])
               /\ gitlab_api' = r.api
               /\ result' = Some(r.result)
               /\ log' = r.log
    /\ UNCHANGED <<environ, threads>>

\* the dispatcher runs download_diff(mr_iid, save_to_file) to its return
DownloadDiff ==
    /\ call = None
    /\ \E mr_iid \in MrIidInputs, save_to_file \in BOOLEAN :
         \E r \in download_diff(gitlab_api, environ, mr_iid, save_to_file) :
               /\ call' = Some([tool |-> "download_diff", mr_iid |-> mr_iid,
                                save_to_file |-> save_to_file])
               /\ gitlab_api' = r.api
               /\ result' = Some(r.result)
               /\ log' = r.log
    /\ UNCHANGED <<environ, threads>>

\* the result goes back to the caller and the dispatcher waits for the next call
Deliver ==
    /\ call # None
    /\ call' = None
    /\ result' = None
    /\ log' = <<>>
    /\ UNCHANGED <<environ, gitlab_api, threads>>

Next == ListMr \/ DownloadDiff \/ Deliver

Spec == Init /\ [][Next]_vars

(***************************************************************************)
(* Threads calling get_current_user on one client whose cache is empty.    *)
(* A thread runs the method one bytecode-level step at a time: the test of *)
(* self.current_user, the request, the store into self.current_user and    *)
(* the read of self.current_user for the return.                           *)
(***************************************************************************)
Threads == 1..NumThreads

Configured == [PROJECT_ID |-> Some("42"), GITLAB_TOKEN |-> Some("glpat"), DOWNLOAD_PATH |-> None]

InitThreads ==
    /\ environ = Configured
    /\ gitlab_api = Some(GitLabAPI(Configured, "42").value)
    /\ call = None
    /\ result = None
    /\ log = <<>>
    /\ threads = [t \in Threads |-> [pc |-> "test", fetched |-> None, ret |-> None, gets |-> 0]]

\* if self.current_user is None:
TestCache(t) ==
    /\ threads[t].pc = "test"
    /\ threads' = [threads EXCEPT ![t].pc =
                      IF gitlab_api[1].current_user = None THEN "request" ELSE "return"]
    /\ UNCHANGED <<environ, gitlab_api, call, result, log>>

\* the request with its failure swallowed: the thread goes on to the return
RequestUserSoftFail(t) ==
    /\ threads[t].pc = "request"
    /\ \E resp \in IdentityResponses :
         LET r == _make_request(<<"/user">>, resp)
         IN threads' = [threads EXCEPT
                ![t].gets = @ + 1,
                ![t].pc = IF r.raised THEN "return" ELSE "store",
                ![t].fetched = IF r.raised THEN None ELSE r.value]
    /\ UNCHANGED <<environ, gitlab_api, call, result, log>>

\* self._make_request("/user")
RequestUser(t) ==
    /\ threads[t].pc = "request"
    /\ \E resp \in IdentityResponses :
         LET r == _make_request(<<"/user">>, resp)
         IN threads' = [threads EXCEPT
                ![t].gets = @ + 1,
                ![t].pc = IF r.raised THEN "raised" ELSE "store",
                ![t].fetched = IF r.raised THEN None ELSE r.value]
    /\ UNCHANGED <<environ, gitlab_api, call, result, log>>

\* self.current_user = <the value fetched>
StoreUser(t) ==
    /\ threads[t].pc = "store"
    /\ gitlab_api' = Some([gitlab_api[1] EXCEPT !.current_user = threads[t].fetched])
    /\ threads' = [threads EXCEPT ![t].pc = "return"]
    /\ UNCHANGED <<environ, call, result, log>>

\* return self.current_user
ReturnUser(t) ==
    /\ threads[t].pc = "return"
    /\ threads' = [threads EXCEPT ![t].pc = "done", ![t].ret = gitlab_api[1].current_user]
    /\ UNCHANGED <<environ, gitlab_api, call, result, log>>

NextThreads == \E t \in Threads : TestCache(t) \/ RequestUser(t) \/ StoreUser(t) \/ ReturnUser(t)

SpecThreads == InitThreads /\ [][NextThreads]_vars

(***************************************************************************)
(* Properties.                                                             *)
(***************************************************************************)
Called(tool) == call # None /\ call[1].tool = tool

ErrorOnly(r) == DOMAIN r = {"error"}

Logged(ev) == {i \in DOMAIN log : log[i].ev = ev}

CallsOf(method) == {i \in Logged("call") : log[i].arg = <<method>>}

\* the requests of the call that the remote API answered with this status
AnsweredWith(status) ==
    {i \in Logged("GET") : log[i + 1].ev = "response" /\ log[i + 1].arg = status}

ListMrFields == {"display", "merge_requests", "total_count", "filter"}
DownloadDiffFields == {"mr_iid", "raw_diff", "diff_size", "saved_to_file", "file_path"}

CachedUser(api) == IF api = None THEN None ELSE api[1].current_user

\* C1: a 401 answer to any request other than the user search makes the tool return the
\* error-only result with the fixed credential guidance, without status code or body.
C1_AuthGuidanceOn401 ==
    \A i \in AnsweredWith(IntToStr(401)) :
        log[i].arg[1] # "/users?search="
            => /\ result[1] = ErrorResult(<<"Authentication failed. Check your GITLAB_TOKEN">>)
               /\ ~Contains(result[1].error, IntToStr(401))
               /\ ~Contains(result[1].error, StatusBody(401))

\* C2: list_mr with a state outside the enumeration returns an error-only result that
\* lists the valid states, and sends no request, whatever the environment holds.
C2_InvalidStateRejected ==
    (Called("list_mr") /\ call[1].state \notin Range(valid_states))
        => /\ ErrorOnly(result[1])
           /\ \A v \in Range(valid_states) : Contains(result[1].error, <<v>>)
           /\ Logged("GET") = {}

\* C3: download_diff sends a request only for a non-empty mr_iid of the digits 0-9, and
\* answers every other mr_iid with "MR IID must be a number" and no request (the answer
\* is looked at where the client exists: without one the call ends in the configuration
\* error before mr_iid is examined).
C3_OnlyDecimalIidsFetched ==
    Called("download_diff")
        => LET mr_iid == call[1].mr_iid
               decimal == mr_iid # <<>> /\ \A i \in 1..Len(mr_iid) : mr_iid[i] \in AsciiDigits
           IN /\ Logged("GET") # {} => decimal
              /\ (~decimal /\ gitlab_api # None)
                    => /\ result[1] = ErrorResult(<<"MR IID must be a number">>)
                       /\ Logged("GET") = {}

\* C4: every tool call returns either the complete success record of its tool or a result
\* whose only field is error; never a mix, never nothing.
C4_UniformResult ==
    call # None
        => /\ result # None
           /\ \/ ErrorOnly(result[1])
              \/ /\ Called("list_mr")
                 /\ DOMAIN result[1] = ListMrFields
                 /\ result[1].total_count = Len(result[1].merge_requests)
              \/ /\ Called("download_diff")
                 /\ DOMAIN result[1] = DownloadDiffFields
                 /\ result[1].saved_to_file <=> result[1].file_path # None
                 /\ result[1].saved_to_file <=> Logged("write") # {}

\* a persistence failure after the file was opened, returned as an error-only result
C4_Witness ==
    /\ Called("download_diff")
    /\ Logged("open") # {}
    /\ Logged("write") = {}
    /\ ErrorOnly(result[1])

C6_SingleRecordDetailed ==
    (\E i \in Logged("return get_merge_requests") : log[i].arg = IntToStr(1))
        => /\ DOMAIN result[1] = ListMrFields
           /\ Contains(result[1].display, <<"   Description: ">>)
           /\ Contains(result[1].display, <<"   Upvotes: ">>)
           /\ Contains(result[1].display, <<"   Downvotes: ">>)

\* C7: list_mr(created_by_me) with an email the lookup resolves sends the listing request
\* with author_id equal to the id of the record found and no assignee_id, and never
\* calls get_current_user.
C7_AuthorIdFromEmailLookup ==
    (Called("list_mr") /\ call[1].filter_by = "created_by_me")
        => \A i \in Logged("return get_user_by_email") :
              log[i].arg # None
                => /\ CallsOf("get_current_user") = {}
                   /\ \E j \in Logged("GET") :
                        /\ log[j].arg[1] = "/projects/"
                        /\ log[j].arg = SubSeq(log[j].arg, 1, 6) \o <<"&author_id=">>
                                            \o IntToStr(log[i].arg[1].id)

\* C8: get_user_by_email always returns; it returns None when the search request fails,
\* and a user only if that user's email is the one asked for; on None list_mr returns the
\* error-only result naming the email and calls nothing further.
C8_EmailLookupSoftFails ==
    Called("list_mr")
        => \A i \in CallsOf("get_user_by_email") :
              /\ Len(log) >= i + 3
              /\ log[i + 1].ev = "GET" /\ log[i + 2].ev = "response"
              /\ log[i + 3].ev = "return get_user_by_email"
              /\ log[i + 2].arg # IntToStr(200) => log[i + 3].arg = None
              /\ log[i + 3].arg # None
                    => /\ "email" \in DOMAIN log[i + 3].arg[1]
                       /\ log[i + 3].arg[1].email = call[1].git_email[1]
              /\ log[i + 3].arg = None
                    => /\ result[1] = ErrorResult(<<"User with email '", call[1].git_email[1],
                                                    "' not found">>)
                       /\ Len(log) = i + 3
                       /\ CallsOf("get_current_user") = {}
                       /\ CallsOf("get_merge_requests") = {}

\* a search the remote API refused with 401, reported as an unknown email
C8_Witness ==
    /\ Called("list_mr")
    /\ call[1].filter_by = "assigned_to_me"
    /\ \E i \in AnsweredWith(IntToStr(401)) : log[i].arg[1] = "/users?search="
    /\ ErrorOnly(result[1])
    /\ Contains(result[1].error, <<call[1].git_email[1]>>)

C10_BenignRace ==
    LET cache == gitlab_api[1].current_user
    IN /\ \A t \in Threads :
            /\ threads[t].gets <= 1
            /\ threads[t].pc = "done"
                  => /\ threads[t].ret # None
                     /\ \E u \in Threads : threads[u].fetched = threads[t].ret
            /\ threads[t].pc = "raised" => (threads[t].gets = 1 /\ threads[t].fetched = None)
       /\ cache # None
            => \E u \in Threads : threads[u].fetched = cache /\ threads[u].pc \in {"return", "done"}
       /\ ((\A t \in Threads : threads[t].pc \in {"done", "raised"})
              /\ (\E t \in Threads : threads[t].pc = "done"))
            => cache # None

\* two callers both fetched, different records; the first returned the second's record
C10_Witness ==
    /\ \A t \in Threads : threads[t].pc = "done" /\ threads[t].gets = 1
    /\ threads[1].fetched # threads[2].fetched
    /\ threads[1].ret = threads[2].fetched
    /\ gitlab_api[1].current_user = threads[2].fetched

====
